---------------------------- MODULE Spec2Model ----------------------------
(***************************************************************************)
(* Model of the two Homebase operational scripts:                          *)
(*   scripts/deploy_token.py          deploy_token, test_token_functions   *)
(*   scripts/interaction_examples.py  HomebaseInteraction, main            *)
(* Each script is a sequential coroutine.  The SDK's remote operations     *)
(* (deploy_contract, invoke_v1, wait_for_acceptance, call, from_address)   *)
(* are the steps; every one of them either returns or raises.              *)
(*                                                                         *)
(* Token amounts are written in units of 10**15 wei, so that 10**18 is     *)
(* E18 = 1000 and every literal of the scripts fits a machine integer.     *)
(***************************************************************************)
EXTENDS Integers, Sequences, FiniteSets, TLC

VARIABLES
    flow,        \* which entry point runs: "deploy", "test" or "interact"
    env,         \* the process environment: NETWORK, ACCOUNT_ADDRESS, PRIVATE_KEY
    fs,          \* the files: the contract class, deployment_addresses.json and
                 \* what was written to token_deployment.json
    pc,          \* <<phase, index>>: the statement the coroutine is at
    client,      \* the FullNodeClient, or NoClient
    account,     \* the Account, or NoAccount
    addresses,   \* self.addresses, or NotLoaded
    bindings,    \* the Contract handles resolved so far: binding name -> address
    results,     \* the local variables the later statements read
    trace,       \* every remote operation issued, in order, with how it ended
    out,         \* the lines printed (the ones that matter), in order
    shown,       \* the amounts printed, each as the quotient the print computed
    outcome      \* "running", "returned", or the type of the exception raised

vars == <<flow, env, fs, pc, client, account, addresses, bindings, results,
          trace, out, shown, outcome>>

----------------------------------------------------------------------------
(* Bounds of the model                                                     *)

\* deployed contract addresses the network may answer with: 1..MaxDeployAddr
MaxDeployAddr == 2
\* address books tried: the five names mapped to distinct addresses, rotated 0..MaxShift
MaxShift == 1

----------------------------------------------------------------------------
(* Values                                                                  *)

Unset == "<unset>"              \* os.getenv of a variable that is not set: None
NoClient == [url |-> "<none>"]
NoAccount == [address |-> "<none>", chain |-> "<none>"]
NotLoaded == <<>>               \* self.addresses before __init__ read the file

TESTNET_URL == "https://alpha4.starknet.io"
MAINNET_URL == "https://alpha-mainnet.starknet.io"

\* 10**18 in units of 10**15 wei
E18 == 1000
\* max_fee=int(1e17) in units of 10**15 wei
MAX_FEE == 100
\* fiat amounts are cents: the prints divide them by 100
CENTS == 100

\* the amounts the scripts pass, as they assign them
transfer_amount == 1000 * E18
mint_amount == 1000 * E18
\* 2000000000000000 wei
new_gas_rate == 2
loan_amount == 5000 * E18
duration == 86400 * 90
collateral_amount == 7500 * E18
escrow_amount == 25000 * E18
timeout_duration == 86400 * 30
swap_amount == 1000 * E18
fiat_amount == 10000

test_recipient == "0x1234567890123456789012345678901234567890123456789012345678901234"
seller_address == "0x5678901234567890123456789012345678901234567890123456789012345678"
\* int.from_bytes(b'PROP001', 'big'): the big-endian bytes of the integer
property_id == <<80, 82, 79, 80, 48, 48, 49>>

ContractNames == <<"hancoin_token", "loan_contract", "escrow_contract",
                   "swap_contract", "credit_card_simulator">>

NameSet == {ContractNames[i] : i \in 1..Len(ContractNames)}

NameIndex(n) == CHOOSE i \in 1..Len(ContractNames) : ContractNames[i] = n

\* The strings int(s, 16) accepts, among the ones tried
HexStrings == {"0x1a2b"}

NetworkValues == {Unset, "testnet", "mainnet", "devnet"}
AccountValues == {Unset, "", "0xACC"}
KeyValues == {Unset, "", "0x1a2b", "not-hex"}

\* A well-formed address book: {"contracts": {name: address}}, addresses distinct
Book(k) == [n \in NameSet |-> 100 + ((NameIndex(n) + k) % Len(ContractNames))]

\* An address book that lacks one of the names
ShortBook == [n \in NameSet \ {"swap_contract"} |-> 100 + NameIndex(n)]

WellFormedBooks == {Book(k) : k \in 0..MaxShift}
Books == WellFormedBooks \cup {ShortBook}

WellFormed(book) == DOMAIN book = NameSet

----------------------------------------------------------------------------
(* Conversions                                                             *)

HexDigit(d) == <<"0","1","2","3","4","5","6","7","8","9","a","b","c","d","e","f">>[d + 1]

RECURSIVE Digits(_, _)
\* the digits of n >= 0 in the base (most significant first), "0" for 0
Digits(n, base) ==
    IF n < base THEN <<HexDigit(n)>>
    ELSE Append(Digits(n \div base, base), HexDigit(n % base))

\* hex(n) of Python for n >= 0
Hex(n) == <<"0", "x">> \o Digits(n, 16)

\* str(n) of Python for n >= 0
Str(n) == Digits(n, 10)

DigitValue(c) == CHOOSE d \in 0..15 : HexDigit(d) = c

RECURSIVE ParseDigits(_, _)
ParseDigits(s, base) ==
    IF s = <<>> THEN 0
    ELSE base * ParseDigits(SubSeq(s, 1, Len(s) - 1), base) + DigitValue(s[Len(s)])

\* int(s, 16) of a string hex() made
ParseHex(s) == ParseDigits(SubSeq(s, 3, Len(s)), 16)

\* int(s) of a string str() made
ParseStr(s) == ParseDigits(s, 10)

\* round(n / d) as Python's float formatting rounds it: to nearest, ties to even
RoundHalfEven(n, d) ==
    LET q == n \div d
        r == n % d
    IN  IF 2 * r < d THEN q
        ELSE IF 2 * r > d THEN q + 1
        ELSE IF q % 2 = 0 THEN q ELSE q + 1

RECURSIVE Grouped(_)
\* the "," thousands separator of the format specification ",": groups of three
Grouped(s) ==
    IF Len(s) <= 3 THEN s
    ELSE Grouped(SubSeq(s, 1, Len(s) - 3)) \o <<",">> \o SubSeq(s, Len(s) - 2, Len(s))

\* n / d of Python for integers n >= 0, d > 0: the quotient, kept exact
Divide(n, d) == [whole |-> n \div d, rest |-> n % d, by |-> d]

\* print(f"... {amount / scale} ..."): the local printed and the quotient shown
Show(label, n, d) == [label |-> label, value |-> Divide(n, d)]

\* f"{total_supply / 10**18:,.0f}"
FormatSupply(raw) == Grouped(Str(RoundHalfEven(raw, E18)))

----------------------------------------------------------------------------
(* The statements that reach the network, per coroutine                    *)

Getenv(name, default) == IF env[name] = Unset THEN default ELSE env[name]

\* Fault variant of Truthy: "is not None" in place of the truth value, so that an
\* empty string passes
Truthy_NotNone(v) == v # Unset

\* Python's truth value of os.getenv(name): None and "" are false
Truthy(v) == v # Unset /\ v # ""

Local(name) == IF name \in DOMAIN results THEN results[name] ELSE Unset

NoLocals == [x \in {} |-> Unset]

\* contract.functions[fn].call(*args), its result bound to the local `bind`
Query(c, fn, args, bind) ==
    [op |-> "call", contract |-> c, fn |-> fn, args |-> args, bind |-> bind,
     try |-> "", cond |-> "always", shows |-> <<>>]

\* the same inside "try: ... except Exception as e: print(msg)"
TryQuery(c, fn, args, bind, msg) ==
    [op |-> "call", contract |-> c, fn |-> fn, args |-> args, bind |-> bind,
     try |-> msg, cond |-> "always", shows |-> <<>>]

\* contract.functions[fn].invoke_v1(*args, max_fee=int(1e17)), the handle bound to `bind`
Invoke(c, fn, args, bind) ==
    [op |-> "invoke", contract |-> c, fn |-> fn, args |-> Append(args, MAX_FEE),
     bind |-> bind, try |-> "", cond |-> "always", shows |-> <<>>]

\* handle.wait_for_acceptance()
Wait(handle) ==
    [op |-> "wait", contract |-> "", fn |-> "wait_for_acceptance", args |-> <<handle>>,
     bind |-> "", try |-> "", cond |-> "always", shows |-> <<>>]

\* the statement, with the amounts printed since the statement before it
Showing(step, lines) == [step EXCEPT !.shows = lines]

\* Contract.from_address(<source>[key], client), bound to the attribute `bind`
Resolve(key, bind) ==
    [op |-> "resolve", contract |-> "", fn |-> "from_address", args |-> <<key>>,
     bind |-> bind, try |-> "", cond |-> "always", shows |-> <<>>]

deploy_token_steps ==
    << [op |-> "deploy", contract |-> "", fn |-> "deploy_contract",
        args |-> <<env.ACCOUNT_ADDRESS>>, bind |-> "deploy_result",
        try |-> "", cond |-> "always", shows |-> <<>>],
       Wait("deploy_result"),
       Query("contract", "name", <<>>, "name"),
       Query("contract", "symbol", <<>>, "symbol"),
       Query("contract", "decimals", <<>>, "decimals"),
       Query("contract", "total_supply", <<>>, "total_supply"),
       Query("contract", "balance_of", <<env.ACCOUNT_ADDRESS>>, "owner_balance"),
       Query("contract", "is_paymaster_enabled", <<>>, "paymaster_enabled"),
       Query("contract", "get_gas_fee_rate", <<>>, "gas_fee_rate") >>

test_token_functions_steps ==
    << Resolve("contract_address", "contract"),
       Showing(Invoke("contract", "mint", <<test_recipient, mint_amount>>, "mint_call"),
               <<Show("mint_amount", mint_amount, E18)>>),
       Wait("mint_call"),
       Query("contract", "balance_of", <<test_recipient>>, "recipient_balance"),
       Invoke("contract", "set_gas_fee_rate", <<new_gas_rate>>, "gas_rate_call"),
       Wait("gas_rate_call"),
       Query("contract", "get_gas_fee_rate", <<>>, "updated_rate") >>

\* Fault variant of setup_contracts_steps: the loan binding resolved from the token's key
setup_contracts_steps_CopyPaste ==
    << Resolve("hancoin_token", "token_contract"),
       Resolve("hancoin_token", "loan_contract"),
       Resolve("escrow_contract", "escrow_contract"),
       Resolve("swap_contract", "swap_contract"),
       Resolve("credit_card_simulator", "credit_card_contract") >>

setup_contracts_steps ==
    << Resolve("hancoin_token", "token_contract"),
       Resolve("loan_contract", "loan_contract"),
       Resolve("escrow_contract", "escrow_contract"),
       Resolve("swap_contract", "swap_contract"),
       Resolve("credit_card_simulator", "credit_card_contract") >>

\* Fault variant of token_interactions_steps: the transfer's wait_for_acceptance left out
token_interactions_steps_NoWait ==
    << Query("token_contract", "name", <<>>, "name"),
       Query("token_contract", "symbol", <<>>, "symbol"),
       Query("token_contract", "total_supply", <<>>, "total_supply"),
       Query("token_contract", "total_supply_formatted", <<>>, "formatted_supply"),
       Query("token_contract", "balance_of", <<env.ACCOUNT_ADDRESS>>, "owner_balance"),
       Query("token_contract", "is_paymaster_enabled", <<>>, "paymaster_enabled"),
       Query("token_contract", "get_gas_fee_rate", <<>>, "gas_fee_rate"),
       Showing(Invoke("token_contract", "transfer", <<test_recipient, transfer_amount>>,
                      "transfer_call"),
               <<Show("transfer_amount", transfer_amount, E18)>>),
       Query("token_contract", "balance_of", <<test_recipient>>, "recipient_balance") >>

\* Fault variant of token_interactions_steps: the transfer given the amount in whole
\* tokens, the value the print shows
token_interactions_steps_Scaled ==
    << Query("token_contract", "name", <<>>, "name"),
       Query("token_contract", "symbol", <<>>, "symbol"),
       Query("token_contract", "total_supply", <<>>, "total_supply"),
       Query("token_contract", "total_supply_formatted", <<>>, "formatted_supply"),
       Query("token_contract", "balance_of", <<env.ACCOUNT_ADDRESS>>, "owner_balance"),
       Query("token_contract", "is_paymaster_enabled", <<>>, "paymaster_enabled"),
       Query("token_contract", "get_gas_fee_rate", <<>>, "gas_fee_rate"),
       Showing(Invoke("token_contract", "transfer",
                      <<test_recipient, transfer_amount \div E18>>, "transfer_call"),
               <<Show("transfer_amount", transfer_amount, E18)>>),
       Wait("transfer_call"),
       Query("token_contract", "balance_of", <<test_recipient>>, "recipient_balance") >>

token_interactions_steps ==
    << Query("token_contract", "name", <<>>, "name"),
       Query("token_contract", "symbol", <<>>, "symbol"),
       Query("token_contract", "total_supply", <<>>, "total_supply"),
       Query("token_contract", "total_supply_formatted", <<>>, "formatted_supply"),
       Query("token_contract", "balance_of", <<env.ACCOUNT_ADDRESS>>, "owner_balance"),
       Query("token_contract", "is_paymaster_enabled", <<>>, "paymaster_enabled"),
       Query("token_contract", "get_gas_fee_rate", <<>>, "gas_fee_rate"),
       Showing(Invoke("token_contract", "transfer", <<test_recipient, transfer_amount>>,
                      "transfer_call"),
               <<Show("transfer_amount", transfer_amount, E18)>>),
       Wait("transfer_call"),
       Query("token_contract", "balance_of", <<test_recipient>>, "recipient_balance") >>

loan_interactions_steps ==
    << Query("loan_contract", "get_total_loans_issued", <<>>, "total_issued"),
       Query("loan_contract", "get_total_amount_repaid", <<>>, "total_repaid"),
       Query("loan_contract", "get_collateral_ratio", <<>>, "collateral_ratio"),
       Showing(Invoke("loan_contract", "request_loan",
                      <<loan_amount, duration, collateral_amount>>, "loan_request"),
               <<Show("loan_amount", loan_amount, E18),
                 Show("collateral_amount", collateral_amount, E18)>>),
       Wait("loan_request"),
       TryQuery("loan_contract", "get_loan", <<1>>, "loan_details",
                "No existing loans found"),
       TryQuery("loan_contract", "calculate_total_due", <<1>>, "total_due",
                "No existing loans found") >>

escrow_interactions_steps ==
    << Query("escrow_contract", "get_total_escrowed", <<>>, "total_escrowed"),
       Query("escrow_contract", "get_total_fees_collected", <<>>, "total_fees"),
       Query("escrow_contract", "get_escrow_fee_rate", <<>>, "fee_rate"),
       Showing(Invoke("escrow_contract", "create_escrow",
                      <<seller_address, escrow_amount, property_id, timeout_duration>>,
                      "escrow_creation"),
               <<Show("escrow_amount", escrow_amount, E18)>>),
       Wait("escrow_creation"),
       TryQuery("escrow_contract", "get_escrow_status", <<1>>, "escrow_status",
                "No existing escrow orders found"),
       TryQuery("escrow_contract", "get_escrow_order", <<1>>, "escrow_order",
                "No existing escrow orders found") >>

swap_interactions_steps ==
    << Query("swap_contract", "get_total_swaps", <<>>, "total_swaps"),
       Query("swap_contract", "get_total_volume", <<>>, "total_volume"),
       Query("swap_contract", "get_swap_fee", <<>>, "swap_fee"),
       Query("swap_contract", "get_supported_token", <<"USDT">>, "usdt_address"),
       Query("swap_contract", "get_supported_token", <<"USDC">>, "usdc_address"),
       Query("swap_contract", "get_supported_token", <<"WETH">>, "weth_address"),
       [ TryQuery("swap_contract", "get_swap_quote",
                  << IF WellFormed(addresses) THEN addresses["hancoin_token"] ELSE Unset,
                     Local("usdt_address"), swap_amount >>,
                  "quote", "Swap quote failed")
         EXCEPT !.cond = "usdt_address.result != 0",
                !.shows = <<Show("swap_amount", swap_amount, E18)>> ] >>

credit_card_interactions_steps ==
    << Query("credit_card_contract", "get_total_payments", <<>>, "total_payments"),
       Query("credit_card_contract", "get_total_fiat_processed", <<>>, "total_fiat"),
       Query("credit_card_contract", "get_total_hnxz_issued", <<>>, "total_hnxz"),
       Query("credit_card_contract", "get_processing_fee_rate", <<>>, "processing_fee"),
       Query("credit_card_contract", "get_exchange_rate", <<"USD">>, "usd_rate"),
       Query("credit_card_contract", "get_exchange_rate", <<"EUR">>, "eur_rate"),
       Query("credit_card_contract", "calculate_hnxz_amount", <<fiat_amount, "USD">>,
             "hnxz_amount"),
       Showing(Invoke("credit_card_contract", "initiate_payment",
                      <<fiat_amount, "USD", 1234>>, "payment_initiation"),
               <<Show("fiat_amount", fiat_amount, CENTS),
                 Show("fiat_amount", fiat_amount, CENTS)>>),
       Wait("payment_initiation"),
       TryQuery("credit_card_contract", "get_payment_status", <<1>>, "payment_status",
                "No existing payments found"),
       TryQuery("credit_card_contract", "get_payment", <<1>>, "payment_details",
                "No existing payments found") >>

\* run_all_examples: setup_contracts, then the five groups inside its try block
InteractPhases ==
    << "setup_contracts", "token_interactions", "loan_interactions",
       "escrow_interactions", "swap_interactions", "credit_card_interactions" >>

Groups == {InteractPhases[i] : i \in 2..Len(InteractPhases)}

Steps(phase) ==
    CASE phase = "deploy_token" -> deploy_token_steps
      [] phase = "test_token_functions" -> test_token_functions_steps
      [] phase = "setup_contracts" -> setup_contracts_steps
      [] phase = "token_interactions" -> token_interactions_steps
      [] phase = "loan_interactions" -> loan_interactions_steps
      [] phase = "escrow_interactions" -> escrow_interactions_steps
      [] phase = "swap_interactions" -> swap_interactions_steps
      [] phase = "credit_card_interactions" -> credit_card_interactions_steps
      [] OTHER -> <<>>

\* the banner a group prints as it starts
Banner(phase) ==
    CASE phase = "token_interactions" -> <<"=== TOKEN CONTRACT INTERACTIONS ===">>
      [] phase = "loan_interactions" -> <<"=== LOAN CONTRACT INTERACTIONS ===">>
      [] phase = "escrow_interactions" -> <<"=== ESCROW CONTRACT INTERACTIONS ===">>
      [] phase = "swap_interactions" -> <<"=== SWAP CONTRACT INTERACTIONS ===">>
      [] phase = "credit_card_interactions" -> <<"=== CREDIT CARD SIMULATOR INTERACTIONS ===">>
      [] OTHER -> <<>>

----------------------------------------------------------------------------
(* Session                                                                 *)

NETWORK_URL == [testnet |-> TESTNET_URL, mainnet |-> MAINNET_URL]

\* StarknetChainId.TESTNET if network == 'testnet' else StarknetChainId.MAINNET
ChainId(network) == IF network = "testnet" THEN "TESTNET" ELSE "MAINNET"

\* node_url of HomebaseInteraction.__init__
InteractionUrl(network) == IF network = "testnet" THEN TESTNET_URL ELSE MAINNET_URL

\* what int(private_key, 16) raises, "" when it returns
KeyError16(key) ==
    IF key = Unset THEN "TypeError"
    ELSE IF key \in HexStrings THEN ""
    ELSE "ValueError"

----------------------------------------------------------------------------
(* What the network may answer                                             *)

\* total_supply answers tried, in units of 10**15 wei
SupplyValues == {0, 1500, 2500, 5000 * E18}

DeployResults ==
    {[address |-> a, hash |-> 16 * a + 11, block_number |-> 7 + a] : a \in 1..MaxDeployAddr}

ReturnValues(step) ==
    IF step.fn = "name" THEN {"Hancoin"}
    ELSE IF step.fn = "symbol" THEN {"HNXZ"}
    ELSE IF step.fn = "decimals" THEN {18}
    ELSE IF step.fn = "total_supply" THEN SupplyValues
    ELSE IF step.fn = "get_supported_token" /\ step.args[1] = "USDT" THEN {0, 900}
    ELSE {0}

\* the two kinds of exception a remote operation is made to raise
Failures == {"notfound", "error"}

----------------------------------------------------------------------------
(* Control                                                                 *)

Done == <<"done", 0>>

\* Fault variant of CondHolds: the quote requested whatever get_supported_token returned
CondHolds_Always(step, locals) == TRUE

CondHolds(step, locals) ==
    \/ step.cond = "always"
    \/ step.cond = "usdt_address.result != 0" /\ locals["usdt_address"] # 0

RECURSIVE NextIndex(_, _, _)
\* the next statement of the coroutine that reaches the network, 0 when there is none:
\* a statement under an if whose condition is false is passed over
NextIndex(phase, idx, locals) ==
    IF idx + 1 > Len(Steps(phase)) THEN 0
    ELSE IF CondHolds(Steps(phase)[idx + 1], locals) THEN idx + 1
    ELSE NextIndex(phase, idx + 1, locals)

\* what the else branch of a statement passed over prints
ElseLines(phase, idx, locals) ==
    IF /\ phase = "swap_interactions"
       /\ idx + 1 <= Len(Steps(phase))
       /\ ~CondHolds(Steps(phase)[idx + 1], locals)
    THEN <<"USDT not configured for swaps">>
    ELSE <<>>

PhaseAfter(phase) ==
    LET i == CHOOSE k \in 1..Len(InteractPhases) : InteractPhases[k] = phase
    IN  IF i < Len(InteractPhases) THEN InteractPhases[i + 1] ELSE "finish"

\* the coroutine `phase` returns normally
Leave(phase, locals, printed) ==
    IF phase = "deploy_token"
    THEN [pc |-> <<"save", 0>>, out |-> printed, results |-> locals, outcome |-> "running"]
    ELSE IF phase = "test_token_functions"
    THEN [pc |-> Done, out |-> printed, results |-> NoLocals, outcome |-> "returned"]
    ELSE IF PhaseAfter(phase) = "finish"
    THEN [pc |-> Done, results |-> NoLocals, outcome |-> "returned",
          out |-> printed \o <<"All interactions completed successfully!">>]
    ELSE [pc |-> <<PhaseAfter(phase), 1>>, results |-> NoLocals, outcome |-> "running",
          out |-> printed
                  \o (IF phase = "setup_contracts"
                      THEN <<"All contracts loaded successfully">> ELSE <<>>)
                  \o Banner(PhaseAfter(phase))]

\* statement idx of `phase` returned: go on to the next one, or return
Proceed(phase, idx, locals, printed) ==
    IF NextIndex(phase, idx, locals) # 0
    THEN [pc |-> <<phase, NextIndex(phase, idx, locals)>>, out |-> printed,
          results |-> locals, outcome |-> "running"]
    ELSE Leave(phase, locals, printed \o ElseLines(phase, idx, locals))

\* Fault variant of Raise: run_all_examples logs the exception and does not re-raise
Raise_NoReraise(phase, exc, printed) ==
    [pc |-> Done, results |-> NoLocals,
     outcome |-> IF phase \in Groups THEN "returned" ELSE exc,
     out |-> IF phase \in Groups
             THEN printed \o <<"Error during interactions">>
             ELSE printed]

\* an exception leaves `phase`: run_all_examples logs and re-raises what its try block
\* covers (the five groups), and nothing else catches it
Raise(phase, exc, printed) ==
    [pc |-> Done, results |-> NoLocals, outcome |-> exc,
     out |-> IF phase \in Groups
             THEN printed \o <<"Error during interactions">>
             ELSE printed]

\* a statement's exception: caught by the try block the statement is in, if any
Catch(phase, step, exc, printed) ==
    IF step.try # ""
    THEN Leave(phase, NoLocals, printed \o <<step.try>>)
    ELSE Raise(phase, exc, printed)

\* the exit status of the process: asyncio.run returned, or the exception left it
ExitStatus == IF outcome = "returned" THEN 0 ELSE 1

Step == Steps(pc[1])[pc[2]]

AtStep(op) ==
    /\ outcome = "running"
    /\ pc[2] \in 1..Len(Steps(pc[1]))
    /\ Step.op = op

Entry(step, status, tx, addr) ==
    [op |-> step.op, contract |-> step.contract, fn |-> step.fn, args |-> step.args,
     group |-> pc[1], status |-> status, tx |-> tx, addr |-> addr]

Goto(next) ==
    /\ pc' = next.pc
    /\ out' = next.out
    /\ results' = next.results
    /\ outcome' = next.outcome
    /\ shown' = shown \o Step.shows

----------------------------------------------------------------------------
(* Initial states                                                          *)

Envs == [NETWORK : NetworkValues, ACCOUNT_ADDRESS : AccountValues, PRIVATE_KEY : KeyValues]

GoodEnv == [NETWORK |-> "testnet", ACCOUNT_ADDRESS |-> "0xACC", PRIVATE_KEY |-> "0x1a2b"]

NoFile == [exists |-> FALSE, contracts |-> <<>>]

InitDeploy ==
    /\ flow = "deploy"
    /\ env \in Envs
    /\ \E present \in BOOLEAN :
           fs = [contract_class |-> present, deployment_addresses |-> NoFile, writes |-> <<>>]
    /\ pc = <<"load_env", 0>>
    /\ client = NoClient
    /\ account = NoAccount
    /\ results = NoLocals

\* test_token_functions(contract_address, account): the caller built the account
InitTest ==
    /\ flow = "test"
    /\ env = GoodEnv
    /\ fs = [contract_class |-> TRUE, deployment_addresses |-> NoFile, writes |-> <<>>]
    /\ pc = <<"test_token_functions", 1>>
    /\ client = [url |-> TESTNET_URL]
    /\ account = [address |-> "0xACC", chain |-> "TESTNET"]
    /\ \E a \in 1..MaxDeployAddr : results = [contract_address |-> a]

InitInteract ==
    /\ flow = "interact"
    /\ env \in Envs
    /\ \E file \in {NoFile} \cup {[exists |-> TRUE, contracts |-> b] : b \in Books} :
           fs = [contract_class |-> FALSE, deployment_addresses |-> file, writes |-> <<>>]
    /\ pc = <<"main", 0>>
    /\ client = NoClient
    /\ account = NoAccount
    /\ results = NoLocals

Init ==
    /\ InitDeploy \/ InitTest \/ InitInteract
    /\ addresses = NotLoaded
    /\ bindings = NoLocals
    /\ trace = <<>>
    /\ out = <<>>
    /\ shown = <<>>
    /\ outcome = "running"

----------------------------------------------------------------------------
(* deploy_token: configuration                                             *)

\* Fault variant of DeployLoadEnv: the missing credential printed and returned from,
\* as main does, in place of the raise
DeployLoadEnv_PrintAndReturn ==
    /\ outcome = "running"
    /\ pc = <<"load_env", 0>>
    /\ IF ~Truthy(env.ACCOUNT_ADDRESS) \/ ~Truthy(env.PRIVATE_KEY)
       THEN /\ outcome' = "returned"
            /\ out' = out \o <<"ACCOUNT_ADDRESS and PRIVATE_KEY must be set in .env file">>
            /\ pc' = Done
            /\ UNCHANGED results
       ELSE /\ results' = [network |-> Getenv("NETWORK", "testnet")]
            /\ out' = out \o <<"Deploying Hancoin Token">>
            /\ pc' = <<"session", 0>>
            /\ UNCHANGED outcome
    /\ UNCHANGED <<flow, env, fs, client, account, addresses, bindings, trace, shown>>

DeployLoadEnv ==
    /\ outcome = "running"
    /\ pc = <<"load_env", 0>>
    /\ IF ~Truthy(env.ACCOUNT_ADDRESS) \/ ~Truthy(env.PRIVATE_KEY)
       THEN /\ outcome' = "ValueError"
            /\ pc' = Done
            /\ UNCHANGED <<out, results>>
       ELSE /\ results' = [network |-> Getenv("NETWORK", "testnet")]
            /\ out' = out \o <<"Deploying Hancoin Token">>
            /\ pc' = <<"session", 0>>
            /\ UNCHANGED outcome
    /\ UNCHANGED <<flow, env, fs, client, account, addresses, bindings, trace, shown>>

DeployBuildSession ==
    /\ outcome = "running"
    /\ pc = <<"session", 0>>
    /\ IF results["network"] \notin DOMAIN NETWORK_URL
       THEN /\ outcome' = "KeyError"
            /\ pc' = Done
            /\ UNCHANGED <<client, account>>
       ELSE /\ client' = [url |-> NETWORK_URL[results["network"]]]
            /\ IF KeyError16(env.PRIVATE_KEY) # ""
               THEN /\ outcome' = KeyError16(env.PRIVATE_KEY)
                    /\ pc' = Done
                    /\ UNCHANGED account
               ELSE /\ account' = [address |-> env.ACCOUNT_ADDRESS,
                                   chain |-> ChainId(results["network"])]
                    /\ pc' = <<"load_class", 0>>
                    /\ UNCHANGED outcome
    /\ UNCHANGED <<flow, env, fs, addresses, bindings, results, trace, out, shown>>

\* Fault variant of DeployLoadContractClass: the except branch prints and falls through
DeployLoadContractClass_NoReturn ==
    /\ outcome = "running"
    /\ pc = <<"load_class", 0>>
    /\ out' = out \o (IF ~fs.contract_class
                      THEN <<"Contract class file not found. Please run 'scarb build' first.">>
                      ELSE <<>>)
                  \o <<"Deploying contract...">>
    /\ pc' = <<"deploy_token", 1>>
    /\ UNCHANGED outcome
    /\ UNCHANGED <<flow, env, fs, client, account, addresses, bindings, results, trace,
                   shown>>

DeployLoadContractClass ==
    /\ outcome = "running"
    /\ pc = <<"load_class", 0>>
    /\ IF ~fs.contract_class
       THEN /\ out' = out \o <<"Contract class file not found. Please run 'scarb build' first.">>
            /\ outcome' = "returned"
            /\ pc' = Done
       ELSE /\ out' = out \o <<"Deploying contract...">>
            /\ pc' = <<"deploy_token", 1>>
            /\ UNCHANGED outcome
    /\ UNCHANGED <<flow, env, fs, client, account, addresses, bindings, results, trace,
                   shown>>

\* Fault variant of DeploymentInfo: the transaction hash written as the contract address
DeploymentInfo_HashAsAddress ==
    [network |-> results["network"],
     contract_address |-> Hex(results["deploy_result"].hash),
     deployer |-> env.ACCOUNT_ADDRESS,
     transaction_hash |-> Hex(results["deploy_result"].hash),
     block_number |-> results["deploy_result"].block_number,
     token_info |-> [name |-> results["name"],
                     symbol |-> results["symbol"],
                     decimals |-> results["decimals"],
                     total_supply |-> Str(results["total_supply"]),
                     formatted_supply |-> FormatSupply(results["total_supply"])]]

\* deployment_info, the record json.dump writes
DeploymentInfo ==
    [network |-> results["network"],
     contract_address |-> Hex(results["deploy_result"].address),
     deployer |-> env.ACCOUNT_ADDRESS,
     transaction_hash |-> Hex(results["deploy_result"].hash),
     block_number |-> results["deploy_result"].block_number,
     token_info |-> [name |-> results["name"],
                     symbol |-> results["symbol"],
                     decimals |-> results["decimals"],
                     total_supply |-> Str(results["total_supply"]),
                     formatted_supply |-> FormatSupply(results["total_supply"])]]

DeploySave ==
    /\ outcome = "running"
    /\ pc = <<"save", 0>>
    /\ fs' = [fs EXCEPT !.writes = Append(@, DeploymentInfo)]
    /\ out' = out \o <<"Deployment info saved to token_deployment.json">>
    /\ outcome' = "returned"
    /\ pc' = Done
    /\ UNCHANGED <<flow, env, client, account, addresses, bindings, results, trace, shown>>

----------------------------------------------------------------------------
(* interaction_examples: main and HomebaseInteraction.__init__             *)

Main ==
    /\ outcome = "running"
    /\ pc = <<"main", 0>>
    /\ IF ~fs.deployment_addresses.exists
       THEN /\ out' = out \o <<"deployment_addresses.json not found!",
                               "Please deploy contracts first using: ./scripts/deploy_all.sh">>
            /\ outcome' = "returned"
            /\ pc' = Done
       ELSE IF ~Truthy(env.ACCOUNT_ADDRESS) \/ ~Truthy(env.PRIVATE_KEY)
       THEN /\ out' = out \o <<"ACCOUNT_ADDRESS and PRIVATE_KEY must be set in .env file">>
            /\ outcome' = "returned"
            /\ pc' = Done
       ELSE /\ pc' = <<"init", 0>>
            /\ UNCHANGED <<out, outcome>>
    /\ UNCHANGED <<flow, env, fs, client, account, addresses, bindings, results, trace,
                   shown>>

\* HomebaseInteraction(), and the two prints that open run_all_examples
HomebaseInit ==
    /\ outcome = "running"
    /\ pc = <<"init", 0>>
    /\ addresses' = fs.deployment_addresses.contracts
    /\ client' = [url |-> InteractionUrl(Getenv("NETWORK", "testnet"))]
    /\ IF KeyError16(env.PRIVATE_KEY) # ""
       THEN /\ outcome' = KeyError16(env.PRIVATE_KEY)
            /\ pc' = Done
            /\ UNCHANGED <<account, out>>
       ELSE /\ account' = [address |-> env.ACCOUNT_ADDRESS,
                           chain |-> ChainId(Getenv("NETWORK", "testnet"))]
            /\ out' = out \o <<"Starting Homebase Contract Interactions">>
            /\ pc' = <<"setup_contracts", 1>>
            /\ UNCHANGED outcome
    /\ UNCHANGED <<flow, env, fs, bindings, results, trace, shown>>

----------------------------------------------------------------------------
(* The remote operations                                                   *)

\* where Contract.from_address takes its address from
AddressSource == IF flow = "test" THEN results ELSE addresses

FromAddress ==
    /\ AtStep("resolve")
    /\ \/ /\ Step.args[1] \notin DOMAIN AddressSource
          /\ Goto(Raise(pc[1], "KeyError", out))
          /\ UNCHANGED <<trace, bindings>>
       \/ /\ Step.args[1] \in DOMAIN AddressSource
          /\ trace' = Append(trace, Entry(Step, "ok", 0, AddressSource[Step.args[1]]))
          /\ bindings' = (Step.bind :> AddressSource[Step.args[1]]) @@ bindings
          /\ Goto(Proceed(pc[1], pc[2], results, out))
       \/ /\ Step.args[1] \in DOMAIN AddressSource
          /\ \E kind \in Failures :
                 trace' = Append(trace, Entry(Step, kind, 0, AddressSource[Step.args[1]]))
          /\ Goto(Raise(pc[1], "ClientError", out))
          /\ UNCHANGED bindings
    /\ UNCHANGED <<flow, env, fs, client, account, addresses>>

DeployContract ==
    /\ AtStep("deploy")
    /\ \/ \E r \in DeployResults :
              /\ trace' = Append(trace, Entry(Step, "ok", Len(trace) + 1, r.address))
              /\ bindings' = ("contract" :> r.address) @@ bindings
              /\ Goto(Proceed(pc[1], pc[2],
                              (Step.bind :> [tx |-> Len(trace) + 1, address |-> r.address,
                                             hash |-> r.hash,
                                             block_number |-> r.block_number]) @@ results,
                              out))
       \/ /\ \E kind \in Failures : trace' = Append(trace, Entry(Step, kind, 0, 0))
          /\ Goto(Raise(pc[1], "ClientError", out))
          /\ UNCHANGED bindings
    /\ UNCHANGED <<flow, env, fs, client, account, addresses>>

InvokeV1 ==
    /\ AtStep("invoke")
    /\ \/ /\ trace' = Append(trace, Entry(Step, "ok", Len(trace) + 1, bindings[Step.contract]))
          /\ Goto(Proceed(pc[1], pc[2], (Step.bind :> [tx |-> Len(trace) + 1]) @@ results, out))
       \/ /\ \E kind \in Failures :
                 trace' = Append(trace, Entry(Step, kind, 0, bindings[Step.contract]))
          /\ Goto(Catch(pc[1], Step, "ClientError", out))
    /\ UNCHANGED <<flow, env, fs, client, account, addresses, bindings>>

WaitForAcceptance ==
    /\ AtStep("wait")
    /\ \/ /\ trace' = Append(trace, Entry(Step, "ok", results[Step.args[1]].tx, 0))
          /\ Goto(Proceed(pc[1], pc[2], results, out))
       \/ /\ \E kind \in Failures :
                 trace' = Append(trace, Entry(Step, kind, results[Step.args[1]].tx, 0))
          /\ Goto(Catch(pc[1], Step, "ClientError", out))
    /\ UNCHANGED <<flow, env, fs, client, account, addresses, bindings>>

Call ==
    /\ AtStep("call")
    /\ \/ /\ trace' = Append(trace, Entry(Step, "ok", 0, bindings[Step.contract]))
          /\ \E v \in ReturnValues(Step) :
                 Goto(Proceed(pc[1], pc[2], (Step.bind :> v) @@ results, out))
       \/ /\ \E kind \in Failures :
                 trace' = Append(trace, Entry(Step, kind, 0, bindings[Step.contract]))
          /\ Goto(Catch(pc[1], Step, "ClientError", out))
    /\ UNCHANGED <<flow, env, fs, client, account, addresses, bindings>>

Next ==
    \/ DeployLoadEnv
    \/ DeployBuildSession
    \/ DeployLoadContractClass
    \/ DeploySave
    \/ Main
    \/ HomebaseInit
    \/ FromAddress
    \/ DeployContract
    \/ InvokeV1
    \/ WaitForAcceptance
    \/ Call

Spec == Init /\ [][Next]_vars

----------------------------------------------------------------------------
(* Vocabulary of the properties                                            *)

Terminated == outcome # "running"

\* a credential is absent when the variable is not set or is the empty string
MissingCredentials == env.ACCOUNT_ADDRESS \in {Unset, ""} \/ env.PRIVATE_KEY \in {Unset, ""}

Printed(line) == \E i \in 1..Len(out) : out[i] = line

Submitted(i) == trace[i].op \in {"deploy", "invoke"} /\ trace[i].status = "ok"

Failed(i) == trace[i].status # "ok"

\* the lookups the groups make inside a try block
ReadBacks ==
    {"get_loan", "calculate_total_due", "get_escrow_status", "get_escrow_order",
     "get_payment_status", "get_payment"}

GroupIndex(g) == CHOOSE k \in 1..Len(InteractPhases) : InteractPhases[k] = g

----------------------------------------------------------------------------
(* C1: submit, wait for acceptance, then read                              *)

\* C1: every submitted invocation (deploy_contract, invoke_v1) is directly followed by
\* the wait_for_acceptance of that same transaction; any later remote operation is
\* issued only after that wait returned; and an invocation that is the last operation
\* so far has the coroutine standing at its wait, so none is left un-awaited.
C1_SubmitWaitThenRead ==
    \A i \in 1..Len(trace) :
        Submitted(i) =>
            /\ i < Len(trace) =>
                   /\ trace[i + 1].op = "wait"
                   /\ trace[i + 1].tx = i
                   /\ trace[i + 1].group = trace[i].group
            /\ i + 1 < Len(trace) => trace[i + 1].status = "ok"
            /\ i = Len(trace) =>
                   /\ AtStep("wait")
                   /\ results[Step.args[1]].tx = i

\* C1 witness: a full interaction run, its four invocations accepted and the transfer's
\* dependent balance_of read issued after the acceptance
C1_Witness ==
    /\ flow = "interact"
    /\ outcome = "returned"
    /\ Cardinality({i \in 1..Len(trace) : Submitted(i)}) = 4
    /\ \E j \in 3..Len(trace) :
           /\ trace[j].fn = "balance_of"
           /\ trace[j - 1].op = "wait"
           /\ trace[j - 2].fn = "transfer"

----------------------------------------------------------------------------
(* C2: what a failing read-back does to the orchestrator                   *)

\* C2: a read-back lookup (get_loan, calculate_total_due, get_escrow_status,
\* get_escrow_order, get_payment_status, get_payment) that raises "not found" does not
\* abort the orchestrator, and one that raises anything else aborts run_all_examples:
\* it is the last remote operation and the exception leaves the entry point.
C2_OnlyNotFoundTolerated ==
    \A i \in 1..Len(trace) :
        trace[i].fn \in ReadBacks =>
            /\ (trace[i].status = "notfound" /\ i = Len(trace)) =>
                   outcome \in {"running", "returned"}
            /\ trace[i].status = "error" =>
                   /\ i = Len(trace)
                   /\ outcome = "ClientError"

----------------------------------------------------------------------------
(* C3: the network table                                                   *)

\* C3: a client or an account exists only for NETWORK "testnet" (or unset, the default)
\* and "mainnet", with the URL and the chain identifier of that entry; for any other
\* value the run fails with neither constructed.
C3_NetworkTableOrFail ==
    LET network == Getenv("NETWORK", "testnet")
    IN  flow \in {"deploy", "interact"} =>
            /\ client # NoClient =>
                   /\ network \in {"testnet", "mainnet"}
                   /\ client.url = (IF network = "testnet" THEN TESTNET_URL ELSE MAINNET_URL)
            /\ account # NoAccount =>
                   /\ network \in {"testnet", "mainnet"}
                   /\ account.chain = (IF network = "testnet" THEN "TESTNET" ELSE "MAINNET")

----------------------------------------------------------------------------
(* C4: credentials                                                         *)

\* C4: with ACCOUNT_ADDRESS or PRIVATE_KEY absent or empty, in the deploy flow and in the
\* interaction flow, no client and no account is ever constructed, no remote operation is
\* issued and no binding resolved; the run ends in failure: deploy_token raises
\* ValueError, main prints its diagnostic and returns.
C4_NoCredentialsNoNetwork ==
    (flow \in {"deploy", "interact"} /\ MissingCredentials) =>
        /\ client = NoClient
        /\ account = NoAccount
        /\ trace = <<>>
        /\ bindings = NoLocals
        /\ fs.writes = <<>>
        /\ Terminated =>
               \/ flow = "deploy" /\ outcome = "ValueError"
               \/ /\ flow = "interact"
                  /\ outcome = "returned"
                  /\ ~Printed("All interactions completed successfully!")

\* C4 witness: the interaction flow ended by an empty ACCOUNT_ADDRESS, the address book
\* and the key being there
C4_Witness ==
    /\ flow = "interact"
    /\ fs.deployment_addresses.exists
    /\ env.ACCOUNT_ADDRESS = ""
    /\ env.PRIVATE_KEY = "0x1a2b"
    /\ Terminated
    /\ Printed("ACCOUNT_ADDRESS and PRIVATE_KEY must be set in .env file")

----------------------------------------------------------------------------
(* C5: the order of the groups, and fail-fast                              *)

IsBanner(line) == \E g \in Groups : Banner(g) = <<line>>

\* the groups that started, by the banners they printed
Started == SelectSeq(out, IsBanner)

\* the remote calls a try block of a group covers
Tolerated == ReadBacks \cup {"get_swap_quote"}

\* C5: the groups start in the order token, loan, escrow, swap, credit-card, each one
\* only after every remote call before it returned or failed inside a try block; and
\* when a remote call of a group outside a try block fails (a query, an invocation, a
\* wait), it is the last remote operation of the run, the success banner is not printed,
\* the error is logged and the exception leaves run_all_examples and main.
C5_FixedOrderFailFast ==
    /\ \A k \in 1..Len(Started) : <<Started[k]>> = Banner(InteractPhases[k + 1])
    /\ pc[1] \in Groups => Len(Started) = GroupIndex(pc[1]) - 1
    /\ \A j \in 2..Len(trace) :
           trace[j].group # trace[j - 1].group =>
               /\ GroupIndex(trace[j].group) = GroupIndex(trace[j - 1].group) + 1
               /\ Len(Started) >= GroupIndex(trace[j].group) - 1
               /\ \A i \in 1..(j - 1) : Failed(i) => trace[i].fn \in Tolerated
    /\ \A i \in 1..Len(trace) :
           (Failed(i) /\ trace[i].group \in Groups /\ trace[i].fn \notin Tolerated) =>
               /\ i = Len(trace)
               /\ pc = Done
               /\ outcome = "ClientError"
               /\ out[Len(out)] = "Error during interactions"
               /\ ~Printed("All interactions completed successfully!")
               /\ Len(Started) = GroupIndex(trace[i].group) - 1

\* C5 witness: create_escrow fails in the third group, and the run ends there
C5_Witness ==
    /\ trace # <<>>
    /\ trace[Len(trace)].fn = "create_escrow"
    /\ Failed(Len(trace))
    /\ Len(Started) = 3
    /\ outcome = "ClientError"

----------------------------------------------------------------------------
(* C6: a missing address book                                              *)

\* C6: with deployment_addresses.json absent the interaction flow prints the "not found"
\* message and the guidance to deploy first, and the process ends with a non-zero exit
\* status, no exception having left main.
C6_MissingBookExitsNonZero ==
    (flow = "interact" /\ ~fs.deployment_addresses.exists /\ Terminated) =>
        /\ Printed("deployment_addresses.json not found!")
        /\ Printed("Please deploy contracts first using: ./scripts/deploy_all.sh")
        /\ outcome = "returned"
        /\ ExitStatus # 0

----------------------------------------------------------------------------
(* C7: configuration failures and the top level                            *)

MissingFileDiagnosed ==
    \/ Printed("deployment_addresses.json not found!")
    \/ Printed("Contract class file not found. Please run 'scarb build' first.")

Diagnosed ==
    \/ MissingFileDiagnosed
    \/ Printed("ACCOUNT_ADDRESS and PRIVATE_KEY must be set in .env file")

\* the run met a configuration failure: a missing credential, a missing address book,
\* or a missing contract class file once the session was built
ConfigurationFailure ==
    \/ flow \in {"deploy", "interact"} /\ MissingCredentials
    \/ flow = "interact" /\ ~fs.deployment_addresses.exists
    \/ flow = "deploy" /\ ~fs.contract_class /\ account # NoAccount

\* C7, as claimed: every run that meets a configuration failure ends with a diagnostic
\* printed and a normal return, no exception leaving the entry point.
C7_ConfigFailureReturnsNormally ==
    (Terminated /\ ConfigurationFailure) =>
        /\ outcome = "returned"
        /\ Diagnosed

\* C7, amended: the interaction flow (missing address book, missing credential) and the
\* deploy flow with a missing contract class file print their diagnostic and return
\* normally, having issued no remote operation; the deploy flow with a missing
\* credential prints nothing and ValueError leaves deploy_token and the entry point.
C7_ConfigFailureOutcome ==
    (Terminated /\ ConfigurationFailure) =>
        IF flow = "deploy" /\ MissingCredentials
        THEN /\ outcome = "ValueError"
             /\ out = <<>>
             /\ ExitStatus = 1
        ELSE /\ outcome = "returned"
             /\ Diagnosed
             /\ trace = <<>>
             /\ ExitStatus = 0

\* C7 witness: the deploy flow, the key missing, ended by the ValueError
C7_Witness ==
    /\ flow = "deploy"
    /\ env.ACCOUNT_ADDRESS = "0xACC"
    /\ env.PRIVATE_KEY = Unset
    /\ outcome = "ValueError"

----------------------------------------------------------------------------
(* C8: a missing input file                                                *)

\* C8: with the contract class file missing the deploy flow issues no remote operation
\* (no deployment, no query), resolves nothing and never writes token_deployment.json,
\* and once the session is built it ends by printing the "scarb build" instruction; with
\* deployment_addresses.json missing the interaction flow constructs no client, resolves
\* no binding, issues no remote operation, and ends by printing the guidance.
C8_MissingFileHaltsBeforeNetwork ==
    /\ (flow = "deploy" /\ ~fs.contract_class) =>
           /\ trace = <<>>
           /\ bindings = NoLocals
           /\ fs.writes = <<>>
           /\ pc[1] \notin {"deploy_token", "save"}
           /\ (Terminated /\ account # NoAccount) =>
                  /\ outcome = "returned"
                  /\ out[Len(out)] = "Contract class file not found. Please run 'scarb build' first."
    /\ (flow = "interact" /\ ~fs.deployment_addresses.exists) =>
           /\ trace = <<>>
           /\ bindings = NoLocals
           /\ client = NoClient
           /\ addresses = NotLoaded
           /\ Terminated =>
                  /\ outcome = "returned"
                  /\ out = <<"deployment_addresses.json not found!",
                             "Please deploy contracts first using: ./scripts/deploy_all.sh">>

\* C8 witness: the deploy flow, session built, halted at the missing contract class file
C8_Witness ==
    /\ flow = "deploy"
    /\ ~fs.contract_class
    /\ account # NoAccount
    /\ Terminated
    /\ MissingFileDiagnosed

----------------------------------------------------------------------------
(* C9: the deployment record                                               *)

VerificationQueries ==
    <<"name", "symbol", "decimals", "total_supply", "balance_of",
      "is_paymaster_enabled", "get_gas_fee_rate">>

\* C9: token_deployment.json is written at most once, only in the deploy flow and only
\* when the remote operations issued are exactly the deployment, its accepted wait and
\* the seven verification queries in order, none of them failed; a run with a failed
\* operation never writes it; and the record names this run's deployed address, the
\* ACCOUNT_ADDRESS that was the constructor argument, and the total_supply the query
\* returned.
C9_RecordAfterVerifiedDeployment ==
    /\ Len(fs.writes) <= 1
    /\ (\E i \in 1..Len(trace) : Failed(i)) => fs.writes = <<>>
    /\ fs.writes # <<>> =>
           /\ flow = "deploy"
           /\ Len(trace) = 2 + Len(VerificationQueries)
           /\ \A i \in 1..Len(trace) : trace[i].status = "ok"
           /\ trace[1].op = "deploy"
           /\ trace[2].op = "wait" /\ trace[2].tx = 1
           /\ \A k \in 1..Len(VerificationQueries) :
                  /\ trace[2 + k].op = "call"
                  /\ trace[2 + k].fn = VerificationQueries[k]
                  /\ trace[2 + k].addr = trace[1].addr
           /\ ParseHex(fs.writes[1].contract_address) = trace[1].addr
           /\ fs.writes[1].deployer = env.ACCOUNT_ADDRESS
           /\ fs.writes[1].deployer = trace[1].args[1]
           /\ ParseStr(fs.writes[1].token_info.total_supply) = results["total_supply"]

\* C9 witness: the record written, for a deployment at address 2 and a non-zero supply
C9_Witness ==
    /\ fs.writes # <<>>
    /\ trace[1].addr = 2
    /\ results["total_supply"] = 5000 * E18
    /\ outcome = "returned"

----------------------------------------------------------------------------
(* C10: bindings and the address book                                      *)

\* the logical name each attribute of HomebaseInteraction is to be bound from
LogicalName ==
    [token_contract |-> "hancoin_token", loan_contract |-> "loan_contract",
     escrow_contract |-> "escrow_contract", swap_contract |-> "swap_contract",
     credit_card_contract |-> "credit_card_simulator"]

C10_Resolved ==
    (flow = "interact" /\ WellFormed(fs.deployment_addresses.contracts)) =>
        /\ \A b \in DOMAIN bindings :
               /\ b \in DOMAIN LogicalName
               /\ bindings[b] = fs.deployment_addresses.contracts[LogicalName[b]]
        /\ (pc[1] \in Groups \/ Printed("All contracts loaded successfully")) =>
               DOMAIN bindings = DOMAIN LogicalName
        /\ \A i \in 1..Len(trace) :
               (i <= Len(ContractNames) \/ trace[i].group = "setup_contracts") =>
                   /\ trace[i].op = "resolve"
                   /\ trace[i].group = "setup_contracts"
        /\ addresses \in {NotLoaded, fs.deployment_addresses.contracts}

C10_Frame ==
    /\ fs'.deployment_addresses = fs.deployment_addresses
    /\ addresses # NotLoaded => addresses' = addresses

\* C10: given a well-formed address book, every binding is resolved from the address
\* stored under its logical name, all five are bound once setup_contracts returned, the
\* only remote operations of the resolution are from_address lookups, and the address
\* book, once loaded, is the file's content and no step of the run changes it.
C10_BindingsFromAddressBook == []C10_Resolved /\ [][C10_Frame]_vars

\* C10 witness: setup_contracts returned with the five bindings, from the rotated book
C10_Witness ==
    /\ flow = "interact"
    /\ pc = <<"token_interactions", 1>>
    /\ addresses = Book(1)
    /\ DOMAIN bindings = DOMAIN LogicalName
    /\ Len(trace) = 5

----------------------------------------------------------------------------
(* C11: raw amounts in calls, scaled amounts in print only                 *)

\* the monetary arguments of a remote call: the local each one is, and the value passed
AmountArgs(e) ==
    IF e.fn = "transfer" THEN {[label |-> "transfer_amount", value |-> e.args[2]]}
    ELSE IF e.fn = "mint" THEN {[label |-> "mint_amount", value |-> e.args[2]]}
    ELSE IF e.fn = "request_loan"
    THEN {[label |-> "loan_amount", value |-> e.args[1]],
          [label |-> "collateral_amount", value |-> e.args[3]]}
    ELSE IF e.fn = "create_escrow" THEN {[label |-> "escrow_amount", value |-> e.args[2]]}
    ELSE IF e.fn = "get_swap_quote" THEN {[label |-> "swap_amount", value |-> e.args[3]]}
    ELSE IF e.fn \in {"calculate_hnxz_amount", "initiate_payment"}
    THEN {[label |-> "fiat_amount", value |-> e.args[1]]}
    ELSE {}

\* the raw amounts: whole tokens times 10**18, and cents
RawAmount ==
    [transfer_amount |-> 1000 * E18, mint_amount |-> 1000 * E18,
     loan_amount |-> 5000 * E18, collateral_amount |-> 7500 * E18,
     escrow_amount |-> 25000 * E18, swap_amount |-> 1000 * E18,
     fiat_amount |-> 100 * CENTS]

\* the scale an amount is divided by for display
ScaleOf(label) == IF label = "fiat_amount" THEN CENTS ELSE E18

NotComma(c) == c # ","

\* C11: every monetary argument of a remote call (transfer, mint, request_loan,
\* create_escrow, get_swap_quote, calculate_hnxz_amount, initiate_payment) is the raw
\* integer amount, the scale times what the print of that amount shows; the quotient by
\* the scale appears only in what is printed and in formatted_supply; and the record's
\* total_supply reads back as the raw value the query returned, formatted_supply being
\* that value over 10**18, rounded.
C11_RawAmountsInCalls ==
    /\ \A i \in 1..Len(trace) :
           \A a \in AmountArgs(trace[i]) :
               /\ a.value = RawAmount[a.label]
               /\ \A j \in 1..Len(shown) :
                      shown[j].label = a.label =>
                          /\ shown[j].value.by = ScaleOf(a.label)
                          /\ shown[j].value.whole * shown[j].value.by + shown[j].value.rest
                                 = a.value
                          /\ shown[j].value.whole # a.value
               /\ trace[i].op = "invoke" => \E j \in 1..Len(shown) : shown[j].label = a.label
    /\ fs.writes # <<>> =>
           LET raw == results["total_supply"]
               formatted == ParseStr(SelectSeq(fs.writes[1].token_info.formatted_supply,
                                               NotComma))
           IN  /\ ParseStr(fs.writes[1].token_info.total_supply) = raw
               /\ 2 * (formatted * E18 - raw) <= E18
               /\ 2 * (raw - formatted * E18) <= E18

\* C11 witness: a full interaction run with the swap quote requested, every monetary call
\* of the groups issued and its amount printed
C11_Witness ==
    /\ flow = "interact"
    /\ outcome = "returned"
    /\ \E i \in 1..Len(trace) : trace[i].fn = "get_swap_quote"
    /\ \E i \in 1..Len(trace) : trace[i].fn = "initiate_payment" /\ trace[i].status = "ok"
    /\ Len(shown) = 7

----------------------------------------------------------------------------
(* C12: the swap group only asks                                           *)

IsSubmission(e) == e.op \in {"deploy", "invoke"}

\* the functions of the invocations submitted, in order
RECURSIVE FnsOf(_)
FnsOf(es) == IF es = <<>> THEN <<>> ELSE <<es[1].fn>> \o FnsOf(Tail(es))

\* C12: every remote operation of the swap group is a query; get_swap_quote is issued
\* only with a non-zero USDT address, and with a zero one "USDT not configured for swaps"
\* is printed in its place; a failed quote is reported as "Swap quote failed" and the
\* orchestrator goes on to the credit-card group; and a run that prints the success
\* banner submitted exactly transfer, request_loan, create_escrow, initiate_payment, in
\* that order, each accepted.
C12_SwapSubmitsNothing ==
    /\ \A i \in 1..Len(trace) :
           trace[i].group = "swap_interactions" =>
               /\ trace[i].op = "call"
               /\ trace[i].contract = "swap_contract"
    /\ \A i \in 1..Len(trace) :
           trace[i].fn = "get_swap_quote" =>
               /\ trace[i].args[2] # 0
               /\ ~Printed("USDT not configured for swaps")
               /\ Failed(i) =>
                      /\ Printed("Swap quote failed")
                      /\ i = Len(trace) =>
                             /\ outcome = "running"
                             /\ pc = <<"credit_card_interactions", 1>>
                             /\ ~Printed("Error during interactions")
    /\ (\E i \in 1..Len(trace) : trace[i].group = "credit_card_interactions") =>
           \/ \E i \in 1..Len(trace) : trace[i].fn = "get_swap_quote"
           \/ Printed("USDT not configured for swaps")
    /\ Printed("All interactions completed successfully!") =>
           /\ FnsOf(SelectSeq(trace, IsSubmission))
                  = <<"transfer", "request_loan", "create_escrow", "initiate_payment">>
           /\ \A i \in 1..Len(trace) : IsSubmission(trace[i]) => Submitted(i)

\* C12 witness: a run that printed the success banner although its swap quote failed
C12_Witness ==
    /\ outcome = "returned"
    /\ Printed("All interactions completed successfully!")
    /\ Printed("Swap quote failed")
    /\ Cardinality({i \in 1..Len(trace) : Submitted(i)}) = 4

============================================================================
